---- MODULE Spec2Model ----
(***************************************************************************)
(* The dashboard's incremental client reconciliation (useIncrementalClients *)
(* in lib/use-incremental-clients.ts), the triggers DashboardPage wires to  *)
(* it (app/page.tsx), the error classifier (lib/error-handler.ts) and the   *)
(* render-time staleness derivation, as one state machine.                  *)
(*                                                                          *)
(* Encoding of JavaScript values:                                           *)
(*   - a Map<string, ClientSummary> is the sequence of its values in        *)
(*     insertion order (Map iteration order);                               *)
(*   - an optional field (priority, statusCode) is a sequence of length     *)
(*     0 (absent / undefined) or 1;                                         *)
(*   - null for state.error is the record NoError;                          *)
(*   - a string that the code searches with includes() is the sequence of   *)
(*     the phrases it is made of.                                           *)
(***************************************************************************)
EXTENDS Integers, Sequences, FiniteSets, TLC

VARIABLES
  feed,            \* which data set the backend serves in this run
  now,             \* Date.now()
  clients,         \* state.clients (Map, in insertion order)
  loading,         \* state.loading
  error,           \* state.error
  lastUpdate,      \* state.lastUpdate
  changedClients,  \* changedClientsRef.current
  polls,           \* fetchClients calls awaiting apiClient.fetchAllClients()
  mounted,         \* DashboardPage's mount effects have run
  teardown,        \* <<>>, or <<the engine's state when DashboardPage unmounted>>
  isRefreshing,    \* DashboardPage isRefreshing
  spinnerTimer,    \* handleRefresh's 500 ms setTimeout is pending
  lastResponse,    \* <<S>>: S is the array the last successful poll received
  ev,              \* the last fetchClients step taken, with the state it saw
  selectedTags,    \* DashboardPage selectedTags
  clientDetailsMap,\* DashboardPage clientDetailsMap: id -> <<>> or <<detail>>
  pendingRequests, \* pendingRequestsRef.current
  detailReqs,      \* apiClient.fetchClientDetail calls awaiting their response
  prefetchTimer,   \* <<>> or <<closure>>: the armed prefetch setTimeout
  renderedAt,      \* Date.now() at DashboardPage's last render
  apiClient,       \* the ApiClient instance: baseUrl, timeout, maxRetries, retryDelay
  call,            \* one ApiClient operation and its fetchWithRetry recursion
  config,          \* the ApiClientConfig the instance was constructed with
  build,           \* process.env, config.json and what next.config.js made of them
  hookState,       \* state of useAllClients / useClientDetail / useClientHistory
  hookCalls,       \* the hooks' fetches awaiting apiClient
  hookEv,          \* the last step a hook took
  expandedClientId,\* DashboardPage expandedClientId: <<>> is null
  clicks,          \* handleClientClick calls awaiting fetchDetail or fetchHistory
  handled          \* <<>> or <<a value given to handleApiError, with its result>>

engineVars == <<clients, loading, error, lastUpdate, changedClients, polls,
                mounted, teardown, isRefreshing, spinnerTimer, lastResponse, ev>>

pageVars == <<selectedTags, clientDetailsMap, pendingRequests, detailReqs>>

viewVars == <<prefetchTimer, renderedAt>>

transportVars == <<apiClient, call, config, build>>

hookVars == <<hookState, hookCalls, hookEv>>

modalVars == <<expandedClientId, clicks>>

vars == <<feed, now, engineVars, pageVars, viewVars, transportVars, hookVars,
          modalVars, handled>>

----------------------------------------------------------------------------
(* Bounds of the model *)

\* fetchClients calls that may be awaiting their response at once
MaxInFlight == 2

\* failed polls are counted up to this number
MaxFailures == 2

\* the clock readings the model distinguishes (epoch ms)
Times == <<60000, 300000, 300001, 360000>>

ClientIds == {"a", "b", "c"}

\* the clients of the prefetch feed, in the order the backend lists them:
\* five whose detail request always fails, then two whose request succeeds
PrefetchList == <<"f1", "f2", "f3", "f4", "f5", "g", "h">>
PrefetchIds == {PrefetchList[i] : i \in DOMAIN PrefetchList}

\* every identifier a detail can be cached for
DetailIds == ClientIds \cup PrefetchIds

----------------------------------------------------------------------------
(* The backend's data *)

BasePriority(id) == CASE id = "a" -> 3 [] id = "b" -> 1 [] OTHER -> 2
BaseTags(id) == IF id = "b" THEN <<"b">> ELSE <<"a", "b">>

\* a ClientSummary as served for id when nothing about it has changed
Base(id) ==
  [clientId |-> id, clientName |-> "X", clientTags |-> BaseTags(id),
   clientPurpose |-> "web", hostname |-> "h1", platform |-> "linux",
   status |-> "online", lastUpdate |-> 0, priority |-> <<BasePriority(id)>>]

\* the same summary with one field served differently
Alt(c, f) ==
  CASE f = "status"        -> [c EXCEPT !.status = "offline"]
    [] f = "lastUpdate"    -> [c EXCEPT !.lastUpdate = 60000]
    [] f = "clientName"    -> [c EXCEPT !.clientName = "Y"]
    [] f = "clientTags"    -> [c EXCEPT !.clientTags = <<"b", "a">>]
    [] f = "clientPurpose" -> [c EXCEPT !.clientPurpose = "db"]
    [] f = "hostname"      -> [c EXCEPT !.hostname = "h2"]
    [] f = "platform"      -> [c EXCEPT !.platform = "windows"]
    [] f = "priority"      -> [c EXCEPT !.priority = <<1>>]
    [] f = "noPriority"    -> [c EXCEPT !.priority = <<>>]
    [] OTHER               -> c

\* the fields a feed serves in two versions
FeedFields(fd) ==
  IF fd = "hostnameOrTags" THEN {"hostname", "clientTags"}
  ELSE IF fd = "page" THEN {"lastUpdate"}
  ELSE {fd}

FieldFeeds == {"status", "lastUpdate", "clientName", "clientPurpose",
               "platform", "hostnameOrTags"}
OrderFeeds == {"priority", "noPriority"}
Feeds == {"poll", "failures", "page", "prefetch", "modal"}
           \cup FieldFeeds \cup OrderFeeds

\* the tag selections the operator makes
TagChoices == {<<>>, <<"a">>}

Variants(fd, id) == {Base(id)} \cup {Alt(Base(id), f) : f \in FeedFields(fd)}

\* the longest list the backend serves in a feed
FeedLen(fd) == IF fd \in FieldFeeds THEN 2 ELSE 3

RECURSIVE ListsOver(_, _, _)
ListsOver(fd, ids, n) ==
  {<<>>} \cup
  (IF n = 0 THEN {}
   ELSE UNION { { <<c>> \o rest : c \in Variants(fd, id),
                                  rest \in ListsOver(fd, ids \ {id}, n - 1) }
                : id \in ids })

\* every GET /api/clients response of a feed: identifiers unique within one
\* response, in any order.  The poll feed serves unchanged summaries only.
FeedSnapshots ==
  [fd \in Feeds |->
     IF fd \in {"poll", "failures"}
     THEN {<<>>, <<Base("a")>>, <<Base("a"), Base("b"), Base("c")>>}
     ELSE IF fd = "page"
     THEN {<<>>, <<Base("a")>>,
           <<Base("a"), Alt(Base("b"), "lastUpdate")>>}
     ELSE IF fd = "prefetch"
     THEN {<<Base("h")>>, [i \in DOMAIN PrefetchList |-> Base(PrefetchList[i])]}
     ELSE IF fd = "modal"
     THEN {<<Base("a"), Base("b")>>}
     ELSE ListsOver(fd, ClientIds, FeedLen(fd))]

----------------------------------------------------------------------------
(* lib/api-client.ts: the errors fetchAllClients rejects with *)

ApiError(message, statusCode) ==
  [class |-> "ApiError", name |-> "ApiError", message |-> message,
   statusCode |-> statusCode]

TimeoutError == ApiError(<<"Request ", "timeout">>, <<>>)
NetworkError ==
  ApiError(<<"Network error", ": ", "Unable to connect", " to server">>, <<>>)
HttpError(code) == ApiError(<<"HTTP ", "status">>, <<code>>)

TransportErrors == {TimeoutError, NetworkError, HttpError(500), HttpError(404)}

----------------------------------------------------------------------------
(* lib/error-handler.ts *)

NoError == [type |-> "none", canRetry |-> FALSE]

\* String.prototype.includes on a message made of phrases
Includes(message, phrase) == \E i \in DOMAIN message : message[i] = phrase

\* the status code tested before the message
HandleApiErrorStatusFirst(e) ==
  IF e.class = "ApiError" THEN
    IF e.statusCode = <<404>>
      THEN [type |-> "not_found", canRetry |-> FALSE]
    ELSE IF e.statusCode = <<400>>
      THEN [type |-> "validation", canRetry |-> FALSE]
    ELSE IF Includes(e.message, "Network error") \/ Includes(e.message, "Unable to connect")
      THEN [type |-> "network", canRetry |-> TRUE]
    ELSE IF Includes(e.message, "timeout")
      THEN [type |-> "timeout", canRetry |-> TRUE]
    ELSE IF e.statusCode # <<>> /\ e.statusCode[1] >= 500
      THEN [type |-> "server", canRetry |-> TRUE]
    ELSE [type |-> "unknown", canRetry |-> TRUE]
  ELSE [type |-> "unknown", canRetry |-> FALSE]

HandleApiError(e) ==
  IF e.class = "ApiError" THEN
    IF Includes(e.message, "Network error") \/ Includes(e.message, "Unable to connect")
      THEN [type |-> "network", canRetry |-> TRUE]
    ELSE IF Includes(e.message, "timeout")
      THEN [type |-> "timeout", canRetry |-> TRUE]
    ELSE IF e.statusCode = <<404>>
      THEN [type |-> "not_found", canRetry |-> FALSE]
    ELSE IF e.statusCode = <<400>>
      THEN [type |-> "validation", canRetry |-> FALSE]
    ELSE IF e.statusCode # <<>> /\ e.statusCode[1] >= 500
      THEN [type |-> "server", canRetry |-> TRUE]
    ELSE [type |-> "unknown", canRetry |-> TRUE]
  ELSE [type |-> "unknown", canRetry |-> FALSE]

\* the phrases a message given to handleApiError is made of
Phrases == {"Network error", "Unable to connect", "timeout", "Timeout", "failed"}

Messages ==
  {<<>>} \cup {<<p>> : p \in Phrases} \cup {<<p, q>> : p, q \in Phrases}

\* what handleApiError is called with: ApiErrors, other Errors, and values
\* that are no Error at all (a plain object with the same fields, a string)
ErrorInputs ==
  {[class |-> c, name |-> c, message |-> m, statusCode |-> st] :
     c \in {"ApiError", "Error", "TypeError", "Object", "String"},
     m \in Messages,
     st \in {<<>>, <<400>>, <<401>>, <<404>>, <<499>>, <<500>>, <<503>>}}

\* handleApiError(e)
Classify(e) ==
  /\ handled' = <<[input |-> e, output |-> HandleApiError(e)]>>
  /\ UNCHANGED <<feed, now, engineVars, pageVars, viewVars, transportVars, hookVars, modalVars>>

----------------------------------------------------------------------------
(* lib/use-incremental-clients.ts: the diff *)

\* JSON.stringify of a string array, as the sequence of its tokens
RECURSIVE JsonItems(_)
JsonItems(tags) ==
  IF tags = <<>> THEN <<>>
  ELSE IF Len(tags) = 1 THEN <<"\"", tags[1], "\"">>
  ELSE <<"\"", tags[1], "\"", ",">> \o JsonItems(Tail(tags))

JsonStringify(tags) == <<"[">> \o JsonItems(tags) \o <<"]">>

\* clientTags compared by reference: never equal across two responses
HasClientChangedByReference(oldClient, newClient) ==
  \/ oldClient.status # newClient.status
  \/ oldClient.lastUpdate # newClient.lastUpdate
  \/ oldClient.clientName # newClient.clientName
  \/ TRUE
  \/ oldClient.clientPurpose # newClient.clientPurpose

\* clientTags compared as sets
HasClientChangedIgnoringTagOrder(oldClient, newClient) ==
  \/ oldClient.status # newClient.status
  \/ oldClient.lastUpdate # newClient.lastUpdate
  \/ oldClient.clientName # newClient.clientName
  \/ {oldClient.clientTags[i] : i \in DOMAIN oldClient.clientTags}
       # {newClient.clientTags[i] : i \in DOMAIN newClient.clientTags}
  \/ oldClient.clientPurpose # newClient.clientPurpose

HasClientChanged(oldClient, newClient) ==
  \/ oldClient.status # newClient.status
  \/ oldClient.lastUpdate # newClient.lastUpdate
  \/ oldClient.clientName # newClient.clientName
  \/ JsonStringify(oldClient.clientTags) # JsonStringify(newClient.clientTags)
  \/ oldClient.clientPurpose # newClient.clientPurpose

\* (a, b) => a.priority - b.priority; a missing priority makes the
\* difference NaN, which Array.prototype.sort reads as +0
ComparePriority(a, b) ==
  IF a.priority = <<>> \/ b.priority = <<>> THEN 0
  ELSE a.priority[1] - b.priority[1]

\* one insertion of the stable sort: x moves left past every element it
\* compares strictly less than
RECURSIVE InsertByPriority(_, _)
InsertByPriority(sorted, x) ==
  IF sorted = <<>> THEN <<x>>
  ELSE IF ComparePriority(x, sorted[Len(sorted)]) < 0
    THEN Append(InsertByPriority(SubSeq(sorted, 1, Len(sorted) - 1), x),
                sorted[Len(sorted)])
    ELSE Append(sorted, x)

\* newClients.sort((a, b) => a.priority - b.priority)
RECURSIVE SortByPriority(_)
SortByPriority(s) ==
  IF s = <<>> THEN <<>>
  ELSE InsertByPriority(SortByPriority(SubSeq(s, 1, Len(s) - 1)), s[Len(s)])

Ids(m) == {m[i].clientId : i \in DOMAIN m}
MapHas(m, id) == \E i \in DOMAIN m : m[i].clientId = id
MapGet(m, id) == m[CHOOSE i \in DOMAIN m : m[i].clientId = id]
\* Map.prototype.set: a new key goes last, an existing key keeps its place
MapSet(m, c) ==
  IF MapHas(m, c.clientId)
  THEN [i \in DOMAIN m |-> IF m[i].clientId = c.clientId THEN c ELSE m[i]]
  ELSE Append(m, c)

\* updatedClients seeded with the previous Map, nothing deleted
RECURSIVE UpdatedClientsKeepingOld(_)
UpdatedClientsKeepingOld(newClients) ==
  IF newClients = <<>> THEN clients
  ELSE MapSet(UpdatedClientsKeepingOld(SubSeq(newClients, 1, Len(newClients) - 1)),
              newClients[Len(newClients)])

\* the previous Map with only the new and the flagged entries set, and
\* the absent identifiers deleted
RECURSIVE SetFlagged(_, _)
SetFlagged(m, newClients) ==
  IF newClients = <<>> THEN m
  ELSE LET c == newClients[1] IN
    SetFlagged(IF ~MapHas(m, c.clientId) \/ HasClientChanged(MapGet(m, c.clientId), c)
               THEN MapSet(m, c) ELSE m,
               Tail(newClients))

UpdatedClientsOnlyFlagged(newClients) ==
  LET m == SetFlagged(clients, newClients) IN
    SelectSeq(m, LAMBDA c : c.clientId \in Ids(newClients))

\* updatedClients after the forEach over the sorted response
RECURSIVE UpdatedClients(_)
UpdatedClients(newClients) ==
  IF newClients = <<>> THEN <<>>
  ELSE MapSet(UpdatedClients(SubSeq(newClients, 1, Len(newClients) - 1)),
              newClients[Len(newClients)])

\* changedIds with the !existingClient test lost
ChangedIdsMissingAdditions(prevClients, newClients) ==
  { newClients[i].clientId : i \in
      { j \in DOMAIN newClients :
          /\ MapHas(prevClients, newClients[j].clientId)
          /\ HasClientChanged(MapGet(prevClients, newClients[j].clientId),
                              newClients[j]) } }
  \cup (Ids(prevClients) \ Ids(newClients))

\* changedClientsRef.current left as the previous poll set it
ChangedIdsOfPreviousPoll(prevClients, newClients) == changedClients

\* changedIds after both loops
ChangedIds(prevClients, newClients) ==
  { newClients[i].clientId : i \in
      { j \in DOMAIN newClients :
          \/ ~MapHas(prevClients, newClients[j].clientId)
          \/ HasClientChanged(MapGet(prevClients, newClients[j].clientId),
                              newClients[j]) } }
  \cup (Ids(prevClients) \ Ids(newClients))

----------------------------------------------------------------------------
(* app/page.tsx: what DashboardPage derives at each render *)

OFFLINE_TIMEOUT_MS == 5 * 60 * 1000

IsClientOfflineInclusive(lastUpdateMs) ==
  renderedAt - lastUpdateMs >= OFFLINE_TIMEOUT_MS

\* Date.now() is read while DashboardPage renders
IsClientOffline(lastUpdateMs) == renderedAt - lastUpdateMs > OFFLINE_TIMEOUT_MS

ApplyOfflineDetection(cs) ==
  [i \in DOMAIN cs |->
     [cs[i] EXCEPT !.status =
        IF IsClientOffline(cs[i].lastUpdate) THEN "offline" ELSE "online"]]

HasSelectedTag(c, tags) ==
  /\ Len(c.clientTags) # 0
  /\ \E i \in DOMAIN c.clientTags : \E j \in DOMAIN tags : c.clientTags[i] = tags[j]

FilterClientsByTags(cs, tags) ==
  IF Len(tags) = 0 THEN cs
  ELSE SelectSeq(cs, LAMBDA c : HasSelectedTag(c, tags))

ProcessedClients ==
  FilterClientsByTags(ApplyOfflineDetection(clients), selectedTags)

\* processedClients.map((c) => clientDetailsMap.get(c.clientId) || c)
ClientsWithDetails ==
  [i \in DOMAIN ProcessedClients |->
     IF clientDetailsMap[ProcessedClients[i].clientId] # <<>>
     THEN clientDetailsMap[ProcessedClients[i].clientId][1]
     ELSE ProcessedClients[i]]

\* the clients prop of VirtualizedGrid / GroupView; <<>> when neither is rendered
CardClients ==
  IF ~loading /\ Len(ProcessedClients) > 0 THEN ClientsWithDetails ELSE <<>>

\* the prefetch effect of a render over clients cl: the previous timer is
\* cleared, and a new one is set if a visible client has no cached detail
\* and no pending request; the callback closes over this render's
\* processedClients and clientDetailsMap
PrefetchEffect(cl, tags, dmap, pend) ==
  LET shown == FilterClientsByTags(cl, tags)
      list == [i \in DOMAIN shown |-> shown[i].clientId]
      missing == SelectSeq(list, LAMBDA id : dmap[id] = <<>> /\ id \notin pend)
  IN IF Len(list) = 0 \/ Len(missing) = 0 THEN <<>>
     ELSE <<[list |-> list,
             cached |-> {id \in DetailIds : dmap[id] # <<>>},
             initial |-> \A id \in DetailIds : dmap[id] = <<>>]>>

\* a state update re-renders DashboardPage while it is mounted
Render(cl, tags, dmap) ==
  IF teardown = <<>>
  THEN /\ renderedAt' = now
       /\ prefetchTimer' = PrefetchEffect(cl, tags, dmap, pendingRequests)
  ELSE UNCHANGED <<renderedAt, prefetchTimer>>

----------------------------------------------------------------------------
(* useIncrementalClients.fetchClients and its callers in DashboardPage *)

Seen == [clients |-> clients, changed |-> changedClients,
         lastUpdate |-> lastUpdate, response |-> lastResponse,
         failures |-> ev.failures]

RemoveAt(s, i) == SubSeq(s, 1, i - 1) \o SubSeq(s, i + 1, Len(s))

\* overlapping polls are exercised in the poll feed; the other feeds
\* exercise the diff and the page with one poll at a time
PollCap == IF feed = "poll" THEN MaxInFlight ELSE 1

\* fetchClients up to its await: the first setState and the request
FetchClients(by) ==
  /\ Len(polls) < PollCap
  /\ loading' = (Len(clients) = 0)
  /\ error' = NoError
  /\ polls' = Append(polls, [by |-> by, start |-> Seen, stale |-> FALSE])
  /\ ev' = [op |-> "start", by |-> by, arg |-> <<>>, prev |-> Seen, start |-> Seen,
            returned |-> "pending", failures |-> ev.failures, stale |-> FALSE]
  /\ Render(clients, selectedTags, clientDetailsMap)
  /\ UNCHANGED <<clients, lastUpdate, changedClients, lastResponse, pageVars>>

\* the initial-fetch effect (the interval is armed by the same commit)
Mount ==
  /\ ~mounted
  /\ mounted' = TRUE
  /\ FetchClients("initial")
  /\ UNCHANGED <<transportVars, hookVars, modalVars, handled, feed, now, teardown, isRefreshing, spinnerTimer>>

\* the setInterval callback
IntervalTick ==
  /\ mounted
  /\ teardown = <<>>
  /\ FetchClients("timer")
  /\ UNCHANGED <<transportVars, hookVars, modalVars, handled, feed, now, mounted, teardown, isRefreshing, spinnerTimer>>

\* the Refresh button, disabled while isRefreshing
HandleRefresh ==
  /\ mounted
  /\ teardown = <<>>
  /\ ~isRefreshing
  /\ isRefreshing' = TRUE
  /\ FetchClients("refresh")
  /\ UNCHANGED <<transportVars, hookVars, modalVars, handled, feed, now, mounted, teardown, spinnerTimer>>

\* ErrorDisplay's Retry button, rendered while error is set and canRetry
Retry ==
  /\ mounted
  /\ teardown = <<>>
  /\ error # NoError
  /\ error.canRetry
  /\ FetchClients("retry")
  /\ UNCHANGED <<transportVars, hookVars, modalVars, handled, feed, now, mounted, teardown, isRefreshing, spinnerTimer>>

\* the pending polls once poll i's response is applied: those started
\* before it now hold a response older than the one in the state
Overtaken(i) ==
  [j \in DOMAIN polls |-> IF j < i THEN [polls[j] EXCEPT !.stale = TRUE]
                          ELSE polls[j]]

\* handleRefresh's finally: the 500 ms timer is set when its poll settles
Settled(i, pending) ==
  /\ polls' = RemoveAt(pending, i)
  /\ spinnerTimer' = (spinnerTimer \/ polls[i].by = "refresh")

\* fetchAllClients resolved with S: sort, then the second setState
PollSucceed(i, S) ==
  /\ i \in DOMAIN polls
  /\ LET newClients == SortByPriority(S) IN
       /\ clients' = UpdatedClients(newClients)
       /\ changedClients' = ChangedIds(clients, newClients)
  /\ loading' = FALSE
  /\ error' = NoError
  /\ lastUpdate' = now
  /\ lastResponse' = <<S>>
  /\ Settled(i, Overtaken(i))
  /\ ev' = [op |-> "success", by |-> polls[i].by, arg |-> S, prev |-> Seen,
            start |-> polls[i].start, returned |-> "fulfilled",
            failures |-> ev.failures, stale |-> polls[i].stale]
  /\ Render(clients', selectedTags, clientDetailsMap)
  /\ UNCHANGED <<transportVars, hookVars, modalVars, handled, feed, now, mounted, teardown, isRefreshing, pageVars>>

\* a failed poll that also clears the interval
PollFailStoppingTimer(i, e) ==
  /\ i \in DOMAIN polls
  /\ loading' = FALSE
  /\ error' = HandleApiError(e)
  /\ Settled(i, polls)
  /\ ev' = [op |-> "failure", by |-> polls[i].by, arg |-> e, prev |-> Seen,
            start |-> polls[i].start, returned |-> "rejected",
            failures |-> IF ev.failures < MaxFailures THEN ev.failures + 1
                         ELSE MaxFailures,
            stale |-> polls[i].stale]
  /\ mounted' = FALSE
  /\ Render(clients, selectedTags, clientDetailsMap)
  /\ UNCHANGED <<transportVars, hookVars, modalVars, handled, feed, now, teardown, isRefreshing, clients, lastUpdate,
                 changedClients, lastResponse, pageVars>>

\* fetchAllClients rejected with e: the catch block, which sets the
\* classified error and throws e again
PollFail(i, e) ==
  /\ i \in DOMAIN polls
  /\ loading' = FALSE
  /\ error' = HandleApiError(e)
  /\ Settled(i, polls)
  /\ ev' = [op |-> "failure", by |-> polls[i].by, arg |-> e, prev |-> Seen,
            start |-> polls[i].start, returned |-> "rejected",
            failures |-> IF ev.failures < MaxFailures THEN ev.failures + 1
                         ELSE MaxFailures,
            stale |-> polls[i].stale]
  /\ Render(clients, selectedTags, clientDetailsMap)
  /\ UNCHANGED <<transportVars, hookVars, modalVars, handled, feed, now, mounted, teardown, isRefreshing, clients, lastUpdate,
                 changedClients, lastResponse, pageVars>>

\* setTimeout(() => setIsRefreshing(false), 500)
SpinnerOff ==
  /\ spinnerTimer
  /\ spinnerTimer' = FALSE
  /\ isRefreshing' = FALSE
  /\ Render(clients, selectedTags, clientDetailsMap)
  /\ UNCHANGED <<transportVars, hookVars, modalVars, handled, feed, now, clients, loading, error, lastUpdate, changedClients,
                 polls, mounted, teardown, lastResponse, ev, pageVars>>

----------------------------------------------------------------------------
(* DashboardPage: tag selection and the speculative detail prefetch *)

\* TagFilter's onTagSelect
SetSelectedTags(tags) ==
  /\ mounted
  /\ teardown = <<>>
  /\ tags # selectedTags
  /\ selectedTags' = tags
  /\ Render(clients, tags, clientDetailsMap)
  /\ UNCHANGED <<transportVars, hookVars, modalVars, handled, feed, now, engineVars, clientDetailsMap, pendingRequests,
                 detailReqs>>

Min(a, b) == IF a < b THEN a ELSE b

\* the prefetch setTimeout callback
PrefetchFire ==
  /\ prefetchTimer # <<>>
  /\ LET t == prefetchTimer[1]
         stillMissing ==
           SelectSeq(t.list,
                     LAMBDA id : id \notin t.cached /\ id \notin pendingRequests)
         batchSize == IF t.initial THEN 10 ELSE 5
         toFetch == SubSeq(stillMissing, 1, Min(batchSize, Len(stillMissing)))
     IN /\ pendingRequests' =
             pendingRequests \cup {toFetch[i] : i \in DOMAIN toFetch}
        /\ detailReqs' =
             detailReqs \o [i \in DOMAIN toFetch |->
                              [clientId |-> toFetch[i], by |-> "prefetch"]]
  /\ prefetchTimer' = <<>>
  /\ UNCHANGED <<transportVars, hookVars, modalVars, handled, feed, now, engineVars, selectedTags, clientDetailsMap, renderedAt>>

\* GET /api/clients/{id}: the summary as the backend has it at that moment
DetailsOf(id) == Variants(feed, id)

\* the clients whose detail request fails on every attempt, and those whose
\* request always succeeds; any other request may end either way
DetailAlwaysFails == IF feed = "prefetch" THEN {"f1", "f2", "f3", "f4", "f5"} ELSE {}
DetailAlwaysSucceeds == IF feed = "prefetch" THEN {"g", "h"} ELSE {}

\* a prefetch request resolved with detail d: then, finally
PrefetchResolve(i, d) ==
  /\ i \in DOMAIN detailReqs
  /\ detailReqs[i].by = "prefetch"
  /\ detailReqs[i].clientId \notin DetailAlwaysFails
  /\ d \in DetailsOf(detailReqs[i].clientId)
  /\ LET id == detailReqs[i].clientId IN
       /\ clientDetailsMap' =
            IF clientDetailsMap[id] # <<>> THEN clientDetailsMap
            ELSE [clientDetailsMap EXCEPT ![id] = <<d>>]
       /\ pendingRequests' = pendingRequests \ {id}
       /\ IF clientDetailsMap[id] # <<>>
          THEN UNCHANGED viewVars
          ELSE /\ renderedAt' = now
               /\ prefetchTimer' =
                    PrefetchEffect(clients, selectedTags, clientDetailsMap',
                                   pendingRequests')
  /\ detailReqs' = RemoveAt(detailReqs, i)
  /\ UNCHANGED <<transportVars, hookVars, modalVars, handled, feed, now, engineVars, selectedTags>>

\* a prefetch request rejected: catch (nothing), finally
PrefetchReject(i) ==
  /\ i \in DOMAIN detailReqs
  /\ detailReqs[i].by = "prefetch"
  /\ detailReqs[i].clientId \notin DetailAlwaysSucceeds
  /\ pendingRequests' = pendingRequests \ {detailReqs[i].clientId}
  /\ detailReqs' = RemoveAt(detailReqs, i)
  /\ UNCHANGED <<transportVars, hookVars, modalVars, handled, feed, now, engineVars, selectedTags, clientDetailsMap, viewVars>>

\* DashboardPage unmounts: the effect cleanups clear the interval and the
\* prefetch timeout; nothing else is cancelled
Unmount ==
  /\ mounted
  /\ teardown = <<>>
  /\ teardown' = <<[clients |-> clients, changed |-> changedClients,
                    lastUpdate |-> lastUpdate, loading |-> loading,
                    error |-> error]>>
  /\ prefetchTimer' = <<>>
  /\ UNCHANGED <<transportVars, hookVars, modalVars, handled, feed, now, clients, loading, error, lastUpdate, changedClients,
                 polls, mounted, isRefreshing, spinnerTimer, lastResponse, ev,
                 pageVars, renderedAt>>

\* time passes
Tick ==
  /\ \E k \in DOMAIN Times : k > 1 /\ Times[k - 1] = now /\ now' = Times[k]
  /\ UNCHANGED <<transportVars, hookVars, modalVars, handled, feed, engineVars, pageVars, viewVars>>

----------------------------------------------------------------------------
(* lib/api-client.ts: the constructor, the three operations, fetchWithRetry *)

\* JSON texts are sequences of tokens; a string literal is its content
\* between two quote tokens, and the empty string has no content token
Quote == "\""

At(text, i) == IF i \in DOMAIN text THEN text[i] ELSE "<end>"

\* the tokens of the string literal for str
StringText(str) == IF str = "" THEN <<Quote, Quote>> ELSE <<Quote, str, Quote>>

\* the tokens of {"key": "value"}
ObjectText(key, value) ==
  <<"{">> \o StringText(key) \o <<":">> \o StringText(value) \o <<"}">>

\* a string literal starting at token i: its value and the next position
ParseString(text, i) ==
  IF At(text, i) # Quote THEN [ok |-> FALSE, value |-> "", next |-> i]
  ELSE IF At(text, i + 1) = Quote
    THEN [ok |-> TRUE, value |-> "", next |-> i + 2]
  ELSE IF At(text, i + 2) = Quote /\ At(text, i + 1) \notin {"{", "}", ":", "<end>"}
    THEN [ok |-> TRUE, value |-> text[i + 1], next |-> i + 3]
  ELSE [ok |-> FALSE, value |-> "", next |-> i]

SyntaxError == [ok |-> FALSE, kind |-> "none", members |-> <<>>]

\* JSON.parse over null, {} and objects of one string member; anything
\* else throws a SyntaxError
JsonParse(text) ==
  IF text = <<"null">> THEN [ok |-> TRUE, kind |-> "null", members |-> <<>>]
  ELSE IF text = <<"{", "}">>
    THEN [ok |-> TRUE, kind |-> "object", members |-> <<>>]
  ELSE IF At(text, 1) # "{" THEN SyntaxError
  ELSE LET k == ParseString(text, 2) IN
    IF ~k.ok \/ At(text, k.next) # ":" THEN SyntaxError
    ELSE LET v == ParseString(text, k.next + 1) IN
      IF v.ok /\ At(text, v.next) = "}" /\ Len(text) = v.next
      THEN [ok |-> TRUE, kind |-> "object",
            members |-> <<[key |-> k.value, value |-> v.value]>>]
      ELSE SyntaxError

\* object.key: <<>> is undefined
Member(object, key) ==
  IF \E i \in DOMAIN object.members : object.members[i].key = key
  THEN <<(CHOOSE m \in {object.members[i] : i \in DOMAIN object.members} :
            m.key = key).value>>
  ELSE <<>>

\* a || b over optional strings: undefined and '' are falsy
OrElse(a, b) == IF a # <<>> /\ a[1] # "" THEN a ELSE b

DefaultApiUrl == "http://localhost:7788"

\* config.json: absent, or a file with this text
NoFile == [exists |-> FALSE, text |-> <<>>]
FileOf(text) == [exists |-> TRUE, text |-> text]

\* next.config.js loadConfig(): the apiUrl it returns
LoadConfig(file) ==
  IF ~file.exists THEN DefaultApiUrl
  ELSE LET parsed == JsonParse(file.text) IN
    IF ~parsed.ok \/ parsed.kind = "null" THEN DefaultApiUrl
    ELSE OrElse(Member(parsed, "apiUrl"), <<DefaultApiUrl>>)[1]

\* the configuration file taking precedence over the environment
NextConfigEnvFileFirst(env, file) == OrElse(<<LoadConfig(file)>>, env)

\* nextConfig.env.NEXT_PUBLIC_API_URL
NextConfigEnv(env, file) == OrElse(env, <<LoadConfig(file)>>)

\* the ApiClientConfig createApiClient(baseUrl) constructs the client with,
\* where publicUrl is process.env.NEXT_PUBLIC_API_URL as the bundle sees it
CreateConfig(baseUrl, publicUrl) ==
  [baseUrl |-> OrElse(baseUrl, OrElse(publicUrl, <<DefaultApiUrl>>)),
   timeout |-> <<5000>>, maxRetries |-> <<3>>, retryDelay |-> <<1000>>]

\* a || b over optional numbers: undefined and 0 are falsy
OrDefault(a, b) == IF a # <<>> /\ a[1] # 0 THEN a[1] ELSE b

\* new ApiClient(config): config.x || default
ApiClientOf(cfg) ==
  [baseUrl |-> OrElse(cfg.baseUrl, <<DefaultApiUrl>>)[1],
   timeout |-> OrDefault(cfg.timeout, 5000),
   maxRetries |-> OrDefault(cfg.maxRetries, 3),
   retryDelay |-> OrDefault(cfg.retryDelay, 1000)]

\* a deployment with neither NEXT_PUBLIC_API_URL nor config.json, built
\* and loaded
DefaultBuild ==
  [env |-> <<>>, file |-> NoFile, phase |-> "loaded",
   publicUrl |-> <<DefaultApiUrl>>]

\* createApiClient() in that deployment
CreateApiClient == ApiClientOf(CreateConfig(<<>>, DefaultBuild.publicUrl))

\* the configurations an ApiClient is constructed with
Configs ==
  {[baseUrl |-> <<DefaultApiUrl>>, timeout |-> t, maxRetries |-> m,
    retryDelay |-> d] :
     t \in {<<>>, <<2000>>},
     m \in {<<>>, <<0>>, <<1>>, <<2>>, <<3>>}, d \in {<<>>, <<500>>, <<1000>>}}

\* the values of NEXT_PUBLIC_API_URL in the build's environment
EnvValues == {<<>>, <<"">>, <<"http://env-a:7788">>, <<"http://env-b:7788">>}

\* the states of config.json
ConfigFiles ==
  {NoFile, FileOf(<<>>), FileOf(<<"apiUrl", "=", "http://cfg-a:7788">>),
   FileOf(<<"null">>), FileOf(<<"{", "}">>), FileOf(ObjectText("port", "7788")),
   FileOf(ObjectText("apiUrl", "")), FileOf(ObjectText("apiUrl", "http://cfg-a:7788")),
   FileOf(ObjectText("apiUrl", "http://cfg-b:7788"))}

\* next build: next.config.js is evaluated and the variable inlined
NextBuild ==
  /\ build.phase = "source"
  /\ build' = [build EXCEPT !.phase = "built",
                            !.publicUrl = NextConfigEnv(build.env, build.file)]
  /\ UNCHANGED <<feed, now, engineVars, pageVars, viewVars, apiClient, call,
                 config, hookVars, modalVars, handled>>

\* lib/api-client.ts is evaluated: export const apiClient = createApiClient()
ModuleLoad ==
  /\ build.phase = "built"
  /\ build' = [build EXCEPT !.phase = "loaded"]
  /\ config' = CreateConfig(<<>>, build.publicUrl)
  /\ apiClient' = ApiClientOf(config')
  /\ UNCHANGED <<feed, now, engineVars, pageVars, viewVars, call, hookVars,
                 modalVars, handled>>

\* the clientId arguments, as strings of characters
ClientIdArgs == {<<>>, <<" ">>, <<"a">>, <<" ", "a">>}

\* what fetch() rejects with, or what reading the body throws
Thrown(class, name, message) ==
  [class |-> class, name |-> name, message |-> message, statusCode |-> <<>>]

\* controller.abort() after this.timeout
AbortError == Thrown("DOMException", "AbortError", <<"The operation was aborted">>)
\* the connection failed, as Chromium and Node word it
FailedToFetch == Thrown("TypeError", "TypeError", <<"Failed to ", "fetch">>)
\* the connection failed, as WebKit words it
LoadFailed == Thrown("TypeError", "TypeError", <<"Load failed">>)
\* response.json() on a body that is not JSON
JsonSyntaxError == Thrown("SyntaxError", "SyntaxError", <<"Unexpected token">>)

\* the bodies of the non-2xx responses: empty, plain text, and JSON texts
ErrorBodies ==
  {<<>>, <<"upstream ", "down">>, <<"null">>, <<"{", "}">>,
   ObjectText("error", "boom"), ObjectText("message", ""),
   ObjectText("message", "Not found")}

\* how one fetch attempt ends: a response with a status and a body, or an
\* exception
AttemptOutcomes ==
  {[status |-> <<200>>, thrown |-> <<>>, body |-> <<>>]}
  \cup {[status |-> <<st>>, thrown |-> <<>>, body |-> b] :
          st \in {400, 404, 500}, b \in ErrorBodies}
  \cup {[status |-> <<>>, thrown |-> <<e>>, body |-> <<>>] :
          e \in {AbortError, FailedToFetch, LoadFailed}}
  \cup {[status |-> <<200>>, thrown |-> <<JsonSyntaxError>>, body |-> <<>>]}

\* `HTTP ${response.status}: ${response.statusText}`
StatusLine == <<"HTTP ", "status">>

\* the message of the ApiError thrown for a non-2xx response with this
\* body text: JSON.parse inside try, the raw text in the catch
ErrorMessage(errorText) ==
  LET errorJson == JsonParse(errorText) IN
    IF errorJson.ok /\ errorJson.kind = "object"
    THEN LET message == OrElse(Member(errorJson, "message"), <<>>) IN
           IF message # <<>> THEN message ELSE StatusLine
    ELSE IF errorText # <<>> THEN errorText ELSE StatusLine

RECURSIVE TrimStart(_)
TrimStart(str) ==
  IF str # <<>> /\ str[1] = " " THEN TrimStart(Tail(str)) ELSE str

RECURSIVE TrimEnd(_)
TrimEnd(str) ==
  IF str # <<>> /\ str[Len(str)] = " "
  THEN TrimEnd(SubSeq(str, 1, Len(str) - 1)) ELSE str

\* String.prototype.trim
Trim(str) == TrimEnd(TrimStart(str))

\* the validation with no test at all
IsMissingNever(clientId) == FALSE

\* !clientId || clientId.trim() === ''
IsMissing(clientId) == clientId = <<>> \/ Trim(clientId) = <<>>

RECURSIVE Pow2(_)
Pow2(n) == IF n = 0 THEN 1 ELSE 2 * Pow2(n - 1)

\* the same delay before every retry
BackoffDelayConstant(retryCount) == apiClient.retryDelay

\* this.retryDelay * Math.pow(2, retryCount)
BackoffDelay(retryCount) == apiClient.retryDelay * Pow2(retryCount)

\* response.ok
ResponseOk(status) == status >= 200 /\ status <= 299

Rejected(e) == <<[ok |-> FALSE, error |-> <<e>>]>>
Fulfilled == <<[ok |-> TRUE, error |-> <<>>]>>

IdleCall ==
  [op |-> "none", clientId |-> <<>>, phase |-> "idle", retryCount |-> 0,
   fetches |-> 0, delays |-> <<>>, attempts |-> <<>>, result |-> <<>>]

\* the catch block of fetchWithRetry: retry, or the ApiError to throw
CatchOf(e, retryCount) ==
  IF e.name = "AbortError"
    THEN IF retryCount < apiClient.maxRetries
         THEN [retry |-> TRUE, error |-> <<>>]
         ELSE [retry |-> FALSE, error |-> <<TimeoutError>>]
  ELSE IF e.class = "TypeError" /\ Includes(e.message, "fetch")
    THEN IF retryCount < apiClient.maxRetries
         THEN [retry |-> TRUE, error |-> <<>>]
         ELSE [retry |-> FALSE, error |-> <<NetworkError>>]
  ELSE IF e.class = "ApiError"
    THEN [retry |-> FALSE, error |-> <<e>>]
  ELSE [retry |-> FALSE, error |-> <<ApiError(e.message, <<>>)>>]

\* fetchAllClients / fetchClientDetail / fetchClientHistory up to the first
\* fetch: the clientId validation, then fetchWithRetry with retryCount = 0
StartCall(op, clientId) ==
  /\ call.phase = "idle"
  /\ call' =
       IF op # "fetchAllClients" /\ IsMissing(clientId)
       THEN [IdleCall EXCEPT !.op = op, !.clientId = clientId,
                             !.phase = "settled",
                             !.result = Rejected(ApiError(<<"Client ID is required">>, <<>>))]
       ELSE [IdleCall EXCEPT !.op = op, !.clientId = clientId,
                             !.phase = "fetching", !.fetches = 1]
  /\ UNCHANGED <<feed, now, engineVars, pageVars, viewVars, apiClient, config, build, hookVars, modalVars, handled>>

\* one fetch attempt ends with outcome o
AttemptEnds(o) ==
  /\ call.phase = "fetching"
  /\ LET attempts == Append(call.attempts, o) IN
       IF o.thrown = <<>> /\ ResponseOk(o.status[1])
       THEN call' = [call EXCEPT !.attempts = attempts, !.phase = "settled",
                                 !.result = Fulfilled]
       ELSE LET e == IF o.thrown # <<>> THEN o.thrown[1]
                     ELSE ApiError(ErrorMessage(o.body), o.status)
                c == CatchOf(e, call.retryCount)
            IN IF c.retry
               THEN call' = [call EXCEPT !.attempts = attempts,
                                         !.phase = "delaying",
                                         !.delays = Append(@, BackoffDelay(call.retryCount))]
               ELSE call' = [call EXCEPT !.attempts = attempts,
                                         !.phase = "settled",
                                         !.result = Rejected(c.error[1])]
  /\ UNCHANGED <<feed, now, engineVars, pageVars, viewVars, apiClient, config, build, hookVars, modalVars, handled>>

\* the backoff delay elapsed: fetchWithRetry(url, options, retryCount + 1)
DelayElapsed ==
  /\ call.phase = "delaying"
  /\ call' = [call EXCEPT !.phase = "fetching", !.retryCount = @ + 1,
                          !.fetches = @ + 1]
  /\ UNCHANGED <<feed, now, engineVars, pageVars, viewVars, apiClient, config, build, hookVars, modalVars, handled>>

----------------------------------------------------------------------------
(* lib/use-api.ts: useAllClients, useClientDetail, useClientHistory *)

HookNames == {"useAllClients", "useClientDetail", "useClientHistory"}

\* what the backend answers a hook's fetch with
HookData == {"d1", "d2"}

\* the id argument of fetchDetail / fetchHistory (the hooks take no clientId)
HookIdArgs == {<<>>, <<"a">>}

\* new Error('Client ID is required')
MissingIdError == Thrown("Error", "Error", <<"Client ID is required">>)

\* useState's initial ApiState
InitialApiState == [data |-> <<>>, loading |-> FALSE, error |-> NoError]

\* the state a hook sets before it awaits apiClient
StateAtStart(h, prev) ==
  IF h = "useClientHistory"
  THEN [prev EXCEPT !.loading = TRUE, !.error = NoError]
  ELSE [data |-> <<>>, loading |-> TRUE, error |-> NoError]

\* the state a hook sets in its catch block
StateAtFailure(h, prev, e) ==
  IF h = "useClientHistory"
  THEN [prev EXCEPT !.loading = FALSE, !.error = HandleApiError(e)]
  ELSE [data |-> <<>>, loading |-> FALSE, error |-> HandleApiError(e)]

\* fetchClients / fetchDetail(id) / fetchHistory(id) up to the await
HookFetch(h, id) ==
  /\ \A i \in DOMAIN hookCalls : hookCalls[i].hook # h
  /\ IF h # "useAllClients" /\ id = <<>>
     THEN /\ hookState' =
               [hookState EXCEPT ![h] = [data |-> <<>>, loading |-> FALSE,
                                         error |-> HandleApiError(MissingIdError)]]
          /\ hookCalls' = hookCalls
          /\ hookEv' = [op |-> "missing", hook |-> h, held |-> hookState[h].data,
                        error |-> NoError]
     ELSE /\ hookState' = [hookState EXCEPT ![h] = StateAtStart(h, @)]
          /\ hookCalls' = Append(hookCalls, [hook |-> h, held |-> hookState[h].data])
          /\ hookEv' = [op |-> "start", hook |-> h, held |-> hookState[h].data,
                        error |-> NoError]
  /\ UNCHANGED <<feed, now, engineVars, pageVars, viewVars, transportVars, modalVars, handled>>

\* apiClient resolved with d
HookResolve(i, d) ==
  /\ i \in DOMAIN hookCalls
  /\ hookState' = [hookState EXCEPT ![hookCalls[i].hook] =
                     [data |-> <<d>>, loading |-> FALSE, error |-> NoError]]
  /\ hookEv' = [op |-> "success", hook |-> hookCalls[i].hook,
                held |-> hookCalls[i].held, error |-> NoError]
  /\ hookCalls' = RemoveAt(hookCalls, i)
  /\ UNCHANGED <<feed, now, engineVars, pageVars, viewVars, transportVars, modalVars, handled>>

\* apiClient rejected with e: the catch block
HookReject(i, e) ==
  /\ i \in DOMAIN hookCalls
  /\ hookState' = [hookState EXCEPT ![hookCalls[i].hook] =
                     StateAtFailure(hookCalls[i].hook, @, e)]
  /\ hookEv' = [op |-> "failure", hook |-> hookCalls[i].hook,
                held |-> hookCalls[i].held, error |-> HandleApiError(e)]
  /\ hookCalls' = RemoveAt(hookCalls, i)
  /\ UNCHANGED <<feed, now, engineVars, pageVars, viewVars, transportVars, modalVars, handled>>

----------------------------------------------------------------------------
(* app/page.tsx: the detail modal - handleClientClick, handleCloseDetail *)

\* the handleClientClick calls that may be awaiting a response at once
MaxClicks == 2

\* GET /api/clients/{id}/history: the samples the backend holds for id
HistoryOf(id) == {<<>>, <<[clientId |-> id, timestamp |-> 0]>>}

\* selectedClientDetail / clientHistory: the hooks' data
SelectedClientDetail == hookState["useClientDetail"].data
ClientHistory == hookState["useClientHistory"].data

\* const detail = selectedClientDetail || clientDetailsMap.get(expandedClientId)
ModalDetail ==
  IF SelectedClientDetail # <<>> THEN SelectedClientDetail
  ELSE clientDetailsMap[expandedClientId[1]]

\* the modal and its backdrop are rendered
ModalRendered == expandedClientId # <<>> /\ ModalDetail # <<>>

\* expandedMetric && clientHistory && clientHistory.length > 0, inside the
\* modal (expandedMetric is set with expandedClientId and cleared with it)
HistoryChartRendered ==
  ModalRendered /\ ClientHistory # <<>> /\ Len(ClientHistory[1]) > 0

\* handleClientClick(id) up to its first await: fetchDetail(id) when the
\* detail is not cached, fetchHistory(id) when it is
HandleClientClick(id) ==
  /\ mounted
  /\ teardown = <<>>
  /\ ~ModalRendered
  /\ \E i \in DOMAIN CardClients : CardClients[i].clientId = id
  /\ Len(clicks) < MaxClicks
  /\ expandedClientId' = <<id>>
  /\ IF clientDetailsMap[id] = <<>>
     THEN /\ hookState' = [hookState EXCEPT !["useClientDetail"] =
                             StateAtStart("useClientDetail", @)]
          /\ clicks' = Append(clicks, [clientId |-> id, awaiting |-> "detail"])
     ELSE /\ hookState' = [hookState EXCEPT !["useClientHistory"] =
                             StateAtStart("useClientHistory", @)]
          /\ clicks' = Append(clicks, [clientId |-> id, awaiting |-> "history"])
  /\ Render(clients, selectedTags, clientDetailsMap)
  /\ UNCHANGED <<feed, now, engineVars, pageVars, transportVars, hookCalls,
                 hookEv, handled>>

\* fetchDetail resolved with d: the hook's state, the cache entry, then
\* fetchHistory(id) up to its await
ClickDetailResolve(i, d) ==
  /\ i \in DOMAIN clicks
  /\ clicks[i].awaiting = "detail"
  /\ d \in DetailsOf(clicks[i].clientId)
  /\ hookState' =
       [hookState EXCEPT
          !["useClientDetail"] = [data |-> <<d>>, loading |-> FALSE,
                                  error |-> NoError],
          !["useClientHistory"] = StateAtStart("useClientHistory", @)]
  /\ clientDetailsMap' = [clientDetailsMap EXCEPT ![clicks[i].clientId] = <<d>>]
  /\ clicks' = [clicks EXCEPT ![i].awaiting = "history"]
  /\ Render(clients, selectedTags, clientDetailsMap')
  /\ UNCHANGED <<feed, now, engineVars, selectedTags, pendingRequests,
                 detailReqs, transportVars, hookCalls, hookEv,
                 expandedClientId, handled>>

\* fetchDetail rejected with e: the hook's catch block throws e again and
\* handleClientClick ends there
ClickDetailReject(i, e) ==
  /\ i \in DOMAIN clicks
  /\ clicks[i].awaiting = "detail"
  /\ hookState' = [hookState EXCEPT !["useClientDetail"] =
                     StateAtFailure("useClientDetail", @, e)]
  /\ clicks' = RemoveAt(clicks, i)
  /\ Render(clients, selectedTags, clientDetailsMap)
  /\ UNCHANGED <<feed, now, engineVars, pageVars, transportVars, hookCalls,
                 hookEv, expandedClientId, handled>>

\* fetchHistory resolved with the samples h
ClickHistoryResolve(i, h) ==
  /\ i \in DOMAIN clicks
  /\ clicks[i].awaiting = "history"
  /\ h \in HistoryOf(clicks[i].clientId)
  /\ hookState' = [hookState EXCEPT !["useClientHistory"] =
                     [data |-> <<h>>, loading |-> FALSE, error |-> NoError]]
  /\ clicks' = RemoveAt(clicks, i)
  /\ Render(clients, selectedTags, clientDetailsMap)
  /\ UNCHANGED <<feed, now, engineVars, pageVars, transportVars, hookCalls,
                 hookEv, expandedClientId, handled>>

\* fetchHistory rejected with e
ClickHistoryReject(i, e) ==
  /\ i \in DOMAIN clicks
  /\ clicks[i].awaiting = "history"
  /\ hookState' = [hookState EXCEPT !["useClientHistory"] =
                     StateAtFailure("useClientHistory", @, e)]
  /\ clicks' = RemoveAt(clicks, i)
  /\ Render(clients, selectedTags, clientDetailsMap)
  /\ UNCHANGED <<feed, now, engineVars, pageVars, transportVars, hookCalls,
                 hookEv, expandedClientId, handled>>

\* the backdrop or the close button of the modal
HandleCloseDetail ==
  /\ mounted
  /\ teardown = <<>>
  /\ ModalRendered
  /\ expandedClientId' = <<>>
  /\ Render(clients, selectedTags, clientDetailsMap)
  /\ UNCHANGED <<feed, now, engineVars, pageVars, transportVars, hookVars,
                 clicks, handled>>

----------------------------------------------------------------------------
(* Specifications *)

InitEngine ==
  /\ now = Times[1]
  /\ clients = <<>>
  /\ loading = FALSE
  /\ error = NoError
  /\ lastUpdate = 0
  /\ changedClients = {}
  /\ polls = <<>>
  /\ mounted = FALSE
  /\ teardown = <<>>
  /\ isRefreshing = FALSE
  /\ spinnerTimer = FALSE
  /\ lastResponse = <<>>
  /\ ev = [op |-> "none", by |-> "none", arg |-> <<>>,
           prev |-> [clients |-> <<>>, changed |-> {}, lastUpdate |-> 0,
                     response |-> <<>>, failures |-> 0],
           start |-> [clients |-> <<>>, changed |-> {}, lastUpdate |-> 0,
                      response |-> <<>>, failures |-> 0],
           returned |-> "none", failures |-> 0, stale |-> FALSE]
  /\ selectedTags = <<>>
  /\ clientDetailsMap = [id \in DetailIds |-> <<>>]
  /\ pendingRequests = {}
  /\ detailReqs = <<>>
  /\ prefetchTimer = <<>>
  /\ renderedAt = now
  /\ call = IdleCall
  /\ handled = <<>>
  /\ hookState = [h \in HookNames |-> InitialApiState]
  /\ hookCalls = <<>>
  /\ hookEv = [op |-> "none", hook |-> "none", held |-> <<>>, error |-> NoError]
  /\ expandedClientId = <<>>
  /\ clicks = <<>>

\* the module-level apiClient of a deployment that sets no URL anywhere
DefaultClient ==
  /\ build = DefaultBuild
  /\ config = CreateConfig(<<>>, build.publicUrl)
  /\ apiClient = CreateApiClient

\* the poll loop with every trigger, over the poll feed
Init == feed = "poll" /\ DefaultClient /\ InitEngine

Next ==
  \/ Mount
  \/ IntervalTick
  \/ HandleRefresh
  \/ Retry
  \/ \E i \in DOMAIN polls : \E S \in FeedSnapshots[feed] : PollSucceed(i, S)
  \/ \E i \in DOMAIN polls : \E e \in TransportErrors : PollFail(i, e)
  \/ SpinnerOff
  \/ Unmount

Spec == Init /\ [][Next]_vars

\* the poll loop with every trigger and failing requests, one poll at a time
InitFailures == feed = "failures" /\ DefaultClient /\ InitEngine

SpecFailures == InitFailures /\ [][Next]_vars

\* the diff, over the feeds that vary one field or the order
InitDiff ==
  /\ feed \in FieldFeeds \cup OrderFeeds
  /\ DefaultClient
  /\ InitEngine

NextDiff ==
  \/ Mount
  \/ IntervalTick
  \/ \E i \in DOMAIN polls : \E S \in FeedSnapshots[feed] : PollSucceed(i, S)

SpecDiff == InitDiff /\ [][NextDiff]_vars

\* the page: renders, the clock and the detail prefetch, over the page feed
InitPage == feed = "page" /\ DefaultClient /\ InitEngine

NextPage ==
  \/ Mount
  \/ IntervalTick
  \/ \E i \in DOMAIN polls : \E S \in FeedSnapshots[feed] : PollSucceed(i, S)
  \/ \E tags \in TagChoices : SetSelectedTags(tags)
  \/ PrefetchFire
  \/ \E i \in DOMAIN detailReqs : \E d \in DetailsOf(detailReqs[i].clientId) :
       PrefetchResolve(i, d)
  \/ \E i \in DOMAIN detailReqs : PrefetchReject(i)
  \/ Tick

SpecPage == InitPage /\ [][NextPage]_vars

\* one ApiClient operation, over every configuration and attempt outcome
InitTransport ==
  /\ feed = "poll"
  /\ build = DefaultBuild
  /\ config \in Configs
  /\ apiClient = ApiClientOf(config)
  /\ InitEngine

NextTransport ==
  \/ \E op \in {"fetchClientDetail", "fetchClientHistory"} :
       \E clientId \in ClientIdArgs : StartCall(op, clientId)
  \/ StartCall("fetchAllClients", <<>>)
  \/ \E o \in AttemptOutcomes : AttemptEnds(o)
  \/ DelayElapsed

SpecTransport == InitTransport /\ [][NextTransport]_vars

\* the detail prefetch over a list whose first clients' details always
\* fail; timers fire, requests settle and the interval keeps ticking
InitPrefetch == feed = "prefetch" /\ DefaultClient /\ InitEngine

PollAnswered ==
  \E i \in DOMAIN polls : \E S \in FeedSnapshots[feed] : PollSucceed(i, S)

PrefetchResolved ==
  \E i \in DOMAIN detailReqs : \E d \in DetailsOf(detailReqs[i].clientId) :
    PrefetchResolve(i, d)

PrefetchRejected == \E i \in DOMAIN detailReqs : PrefetchReject(i)

NextPrefetch ==
  \/ Mount
  \/ IntervalTick
  \/ PollAnswered
  \/ PrefetchFire
  \/ PrefetchResolved
  \/ PrefetchRejected

SpecPrefetch ==
  /\ InitPrefetch
  /\ [][NextPrefetch]_vars
  /\ WF_vars(Mount)
  /\ WF_vars(IntervalTick)
  /\ WF_vars(PollAnswered)
  /\ WF_vars(PrefetchFire)
  /\ WF_vars(PrefetchResolved)
  /\ WF_vars(PrefetchRejected)

\* handleApiError over every input
InitClassify == feed = "poll" /\ DefaultClient /\ InitEngine

NextClassify == \E e \in ErrorInputs : Classify(e)

SpecClassify == InitClassify /\ [][NextClassify]_vars

\* the three data-fetching hooks
InitHooks == feed = "poll" /\ DefaultClient /\ InitEngine

NextHooks ==
  \/ \E id \in HookIdArgs :
       \E h \in {"useClientDetail", "useClientHistory"} : HookFetch(h, id)
  \/ HookFetch("useAllClients", <<>>)
  \/ \E i \in DOMAIN hookCalls : \E d \in HookData : HookResolve(i, d)
  \/ \E i \in DOMAIN hookCalls : \E e \in TransportErrors : HookReject(i, e)

SpecHooks == InitHooks /\ [][NextHooks]_vars

\* the detail modal over two clients: polls, the prefetch, clicks on the
\* cards and the closing of the modal
InitModal == feed = "modal" /\ DefaultClient /\ InitEngine

NextModal ==
  \/ Mount
  \/ IntervalTick
  \/ PollAnswered
  \/ PrefetchFire
  \/ PrefetchResolved
  \/ PrefetchRejected
  \/ \E id \in ClientIds : HandleClientClick(id)
  \/ \E i \in DOMAIN clicks : \E d \in DetailsOf(clicks[i].clientId) :
       ClickDetailResolve(i, d)
  \/ \E i \in DOMAIN clicks : ClickDetailReject(i, TimeoutError)
  \/ \E i \in DOMAIN clicks : \E h \in HistoryOf(clicks[i].clientId) :
       ClickHistoryResolve(i, h)
  \/ \E i \in DOMAIN clicks : ClickHistoryReject(i, TimeoutError)
  \/ HandleCloseDetail

SpecModal == InitModal /\ [][NextModal]_vars

\* the deployment: the build and the load of the module-level client, over
\* every environment value and every config.json
InitConfig ==
  /\ feed = "poll"
  /\ build \in {[env |-> e, file |-> f, phase |-> "source", publicUrl |-> <<>>] :
                  e \in EnvValues, f \in ConfigFiles}
  /\ config = [baseUrl |-> <<>>, timeout |-> <<>>, maxRetries |-> <<>>,
               retryDelay |-> <<>>]
  /\ apiClient = ApiClientOf(config)
  /\ InitEngine

NextConfig == NextBuild \/ ModuleLoad

SpecConfig == InitConfig /\ [][NextConfig]_vars

----------------------------------------------------------------------------
(* Claims about the poll loop (checked under Spec) *)

\* C1: at most one list poll is outstanding at any time: while a poll
\* started by fetchClients is in flight, a further poll request from any
\* trigger issues no second fetchAllClients call.
C1_SinglePollInFlight == Len(polls) <= 1

\* C2: when a poll fails, known, changedSince and lastPollAt are exactly
\* what they were before that poll started; loading is false and error is
\* the classification of the failure; with 3 known clients and a network
\* failure the 3 entries stay and the error is network, retryable.
C2_FailureKeepsPollStartState ==
  ev.op = "failure" =>
    /\ clients = ev.start.clients
    /\ changedClients = ev.start.changed
    /\ lastUpdate = ev.start.lastUpdate
    /\ loading = FALSE
    /\ error = HandleApiError(ev.arg)
    /\ (Len(ev.start.clients) = 3 /\ ev.arg = NetworkError =>
          /\ Len(clients) = 3
          /\ error = [type |-> "network", canRetry |-> TRUE])

\* C3: at poll start loading is set to true iff known is empty; a poll
\* started with known non-empty runs with loading = false and with the
\* entries known at its start unchanged for as long as it is in flight.
C3_LoadingIffEmptyAndStaleDataKept ==
  /\ ev.op = "start" => (loading = (ev.prev.clients = <<>>))
  /\ \A i \in DOMAIN polls :
       polls[i].start.clients # <<>> =>
         /\ loading = FALSE
         /\ clients = polls[i].start.clients

----------------------------------------------------------------------------
(* Claims about the diff (checked under SpecDiff) *)

\* the change-detection field set, tags compared as an ordered sequence
TrackedFieldsDiffer(o, n) ==
  \/ o.status # n.status
  \/ o.lastUpdate # n.lastUpdate
  \/ o.clientName # n.clientName
  \/ o.clientTags # n.clientTags
  \/ o.clientPurpose # n.clientPurpose

Entry(S, id) == S[CHOOSE i \in DOMAIN S : S[i].clientId = id]
Pos(S, id) == CHOOSE i \in DOMAIN S : S[i].clientId = id

\* C4: if two consecutive successful polls both return S, then after the
\* second changedSince is empty and known is equal in value and order to
\* known after the first.
C4_IdempotentDiff ==
  (ev.op = "success" /\ ev.prev.response = <<ev.arg>>) =>
    /\ changedClients = {}
    /\ clients = ev.prev.clients

C4_Witness ==
  /\ ev.op = "success"
  /\ ev.prev.response = <<ev.arg>>
  /\ Len(ev.arg) = 3
  /\ ev.arg # clients
  /\ changedClients = {}

\* the poll added exactly the identifier n to an otherwise unchanged list
AddsOnly(n) ==
  /\ ev.op = "success"
  /\ n \notin Ids(ev.prev.clients)
  /\ Ids(ev.arg) = Ids(ev.prev.clients) \cup {n}
  /\ \A id \in Ids(ev.prev.clients) :
       ~TrackedFieldsDiffer(MapGet(ev.prev.clients, id), Entry(ev.arg, id))

\* C5: a successful poll returning the previous snapshot plus exactly one
\* entry with a new identifier, no other entry differing in a tracked
\* field, leaves changedSince = {that identifier} and known holding the
\* new entry.
C5_AdditionDetection ==
  \A n \in ClientIds :
    AddsOnly(n) =>
      /\ changedClients = {n}
      /\ MapHas(clients, n)
      /\ MapGet(clients, n) = Entry(ev.arg, n)

C5_Witness ==
  \E n \in ClientIds :
    /\ AddsOnly(n)
    /\ ev.prev.clients # <<>>
    /\ changedClients = {n}

\* C6: after every successful poll the identifiers in known are those of
\* the returned snapshot; every identifier of the old known absent from
\* the snapshot is in changedSince and no longer in known.
C6_RemovalDetection ==
  ev.op = "success" =>
    /\ Ids(clients) = Ids(ev.arg)
    /\ \A id \in Ids(ev.prev.clients) \ Ids(ev.arg) :
         id \in changedClients /\ ~MapHas(clients, id)

C6_Witness ==
  /\ ev.op = "success"
  /\ clients # <<>>
  /\ \E id \in Ids(ev.prev.clients) \ Ids(ev.arg) :
       id \in changedClients /\ ~MapHas(clients, id)

\* C7: an identifier in both known and the incoming snapshot is put in
\* changedSince iff one of status, lastUpdate, clientName, clientTags (as
\* an ordered sequence) or clientPurpose differs; a hostname change alone
\* does not mark it, a reordering of clientTags does.
C7_FieldChangeSensitivity ==
  ev.op = "success" =>
    \A id \in Ids(ev.prev.clients) \cap Ids(ev.arg) :
      (id \in changedClients) <=>
        TrackedFieldsDiffer(MapGet(ev.prev.clients, id), Entry(ev.arg, id))

C7_Witness ==
  /\ ev.op = "success"
  /\ \E id \in Ids(ev.prev.clients) \cap Ids(ev.arg) :
       /\ MapGet(ev.prev.clients, id).hostname # Entry(ev.arg, id).hostname
       /\ id \notin changedClients
  /\ \E id \in Ids(ev.prev.clients) \cap Ids(ev.arg) :
       /\ MapGet(ev.prev.clients, id).clientTags = <<"a", "b">>
       /\ Entry(ev.arg, id).clientTags = <<"b", "a">>
       /\ id \in changedClients

\* C8: after every successful poll known is iterated in ascending
\* priority order, and entries with equal or absent priority keep their
\* relative order from the server response.
C8_PriorityOrder ==
  ev.op = "success" =>
    \A i, j \in DOMAIN clients :
      i < j =>
        /\ (clients[i].priority # <<>> /\ clients[j].priority # <<>> =>
              clients[i].priority[1] <= clients[j].priority[1])
        /\ (clients[i].priority = clients[j].priority =>
              Pos(ev.arg, clients[i].clientId) < Pos(ev.arg, clients[j].clientId))

----------------------------------------------------------------------------
(* Claims about the rendered page (checked under SpecPage) *)

\* C9: the derived status of an entry is offline iff now - lastUpdate is
\* strictly greater than 300000 ms, otherwise online: 6 minutes gives
\* offline, 1 minute online, exactly 300000 ms online.
C9_StalenessDerivation ==
  \A i \in DOMAIN ProcessedClients :
    LET c == ProcessedClients[i]
        age == renderedAt - MapGet(clients, c.clientId).lastUpdate
    IN /\ c.status \in {"online", "offline"}
       /\ (c.status = "offline") <=> (age > 300000)
       /\ (age = 360000 => c.status = "offline")
       /\ (age = 60000 => c.status = "online")
       /\ (age = 300000 => c.status = "online")

C9_Witness ==
  /\ \E i \in DOMAIN ProcessedClients :
       /\ renderedAt - ProcessedClients[i].lastUpdate = 300000
       /\ ProcessedClients[i].status = "online"
  /\ \E i \in DOMAIN ProcessedClients :
       /\ renderedAt - ProcessedClients[i].lastUpdate = 360000
       /\ ProcessedClients[i].status = "offline"

\* C10: every client object passed to the card views carries a status
\* equal to the staleness function of that client's lastUpdate in known,
\* evaluated at that render, also for clients whose ClientDetail is cached.
C10_CardStatusIsDerived ==
  \A i \in DOMAIN CardClients :
    CardClients[i].status =
      IF renderedAt - MapGet(clients, CardClients[i].clientId).lastUpdate > 300000
      THEN "offline" ELSE "online"

----------------------------------------------------------------------------
(* Claims about failed polls (checked under SpecFailures) and about what
   fetchClients returns and does after teardown (checked under Spec) *)

\* C11: poll failures are never fatal: after any number of failed polls,
\* while DashboardPage is mounted, the interval is still armed, and a later
\* poll from any trigger whose request succeeds leaves known equal to the
\* returned snapshot, loading = false and error = null.
C11_FailuresNeverFatal ==
  /\ (ev.failures > 0 /\ teardown = <<>> => mounted)
  /\ (ev.op = "success" /\ ev.start.failures > 0 =>
        /\ Len(clients) = Len(ev.arg)
        /\ Ids(clients) = Ids(ev.arg)
        /\ \A id \in Ids(ev.arg) : MapGet(clients, id) = Entry(ev.arg, id)
        /\ loading = FALSE
        /\ error = NoError)

C11_Witness ==
  /\ ev.op = "success"
  /\ ev.by \in {"timer", "retry"}
  /\ ev.start.failures = MaxFailures
  /\ ev.prev.clients = <<>>
  /\ Len(clients) = 3
  /\ teardown = <<>>
  /\ mounted

\* C12: when fetchAllClients rejects, fetchClients records the classified
\* error in state and the promise it returns to its caller does not reject.
C12_FailureNotPropagated ==
  ev.op = "failure" =>
    /\ error = HandleApiError(ev.arg)
    /\ ev.returned # "rejected"

\* C13: once DashboardPage has unmounted, the completion of a poll that was
\* in flight updates nothing: known, changedSince, lastPollAt, loading and
\* error stay as they were at teardown.
C13_TeardownDiscardsCompletion ==
  teardown # <<>> =>
    /\ clients = teardown[1].clients
    /\ changedClients = teardown[1].changed
    /\ lastUpdate = teardown[1].lastUpdate
    /\ loading = teardown[1].loading
    /\ error = teardown[1].error

----------------------------------------------------------------------------
(* Claims about the transport (checked under SpecTransport) *)

\* the attempt timed out: the AbortController aborted it
IsTimeout(o) == o.thrown = <<AbortError>>

\* the attempt failed at the network level: fetch() rejected with a TypeError
IsNetworkFailure(o) == o.thrown # <<>> /\ o.thrown[1].class = "TypeError"

\* the attempt got a response with a non-2xx status
IsHttpError(o) == o.thrown = <<>> /\ ~ResponseOk(o.status[1])

RECURSIVE SumSeq(_)
SumSeq(q) == IF q = <<>> THEN 0 ELSE q[1] + SumSeq(Tail(q))

\* C14: an attempt that ends in a timeout or a network-level connection
\* failure is retried while retries remain; an attempt that ends in a
\* non-2xx response is never retried: the request fails there, with an
\* ApiError carrying that status code, whatever the retry count.
C14_RetriesOnlyTransient ==
  /\ \A k \in DOMAIN call.attempts :
       (IsTimeout(call.attempts[k]) \/ IsNetworkFailure(call.attempts[k]))
         /\ k <= apiClient.maxRetries
       => (call.fetches > k \/ call.phase = "delaying")
  /\ \A k \in DOMAIN call.attempts :
       IsHttpError(call.attempts[k]) =>
         /\ k = Len(call.attempts)
         /\ call.fetches = k
         /\ call.phase = "settled"
         /\ call.result # <<>>
         /\ ~call.result[1].ok
         /\ call.result[1].error[1].class = "ApiError"
         /\ call.result[1].error[1].statusCode = call.attempts[k].status

\* C15: the delay waited before retry number i (from 0) is
\* retryDelay * 2^i; a request that times out twice and then succeeds
\* returns the successful result after a total delay of
\* retryDelay * (2^0 + 2^1), 3000 ms with createApiClient's 1000 ms.
C15_ExponentialBackoff ==
  /\ \A k \in DOMAIN call.delays :
       call.delays[k] = apiClient.retryDelay * Pow2(k - 1)
  /\ (call.phase = "settled" /\ Len(call.attempts) = 3
        /\ IsTimeout(call.attempts[1]) /\ IsTimeout(call.attempts[2])
        /\ call.attempts[3] = [status |-> <<200>>, thrown |-> <<>>, body |-> <<>>]
      => /\ call.result = Fulfilled
         /\ SumSeq(call.delays) = apiClient.retryDelay * (Pow2(0) + Pow2(1))
         /\ (apiClient = CreateApiClient => SumSeq(call.delays) = 3000))

C15_Witness ==
  /\ call.phase = "settled"
  /\ apiClient = CreateApiClient
  /\ Len(call.attempts) = 3
  /\ IsTimeout(call.attempts[1]) /\ IsTimeout(call.attempts[2])
  /\ call.result = Fulfilled
  /\ call.delays = <<1000, 2000>>

\* C16: a request makes at most maxRetries + 1 fetches; if every attempt
\* timed out it ends after exactly maxRetries + 1 fetches (4 with
\* createApiClient) with the ApiError 'Request timeout'; if every attempt
\* failed at the network level it ends after maxRetries + 1 fetches with
\* the ApiError 'Network error: Unable to connect to server'; a mix of the
\* two shares the one retry counter.
C16_RetryExhaustion ==
  /\ call.fetches <= apiClient.maxRetries + 1
  /\ Len(call.delays) <= apiClient.maxRetries
  /\ (call.phase = "settled" /\ call.attempts # <<>> =>
        /\ ((\A k \in DOMAIN call.attempts : IsTimeout(call.attempts[k])) =>
              /\ call.fetches = apiClient.maxRetries + 1
              /\ call.result = Rejected(TimeoutError)
              /\ (apiClient = CreateApiClient => call.fetches = 4))
        /\ ((\A k \in DOMAIN call.attempts : IsNetworkFailure(call.attempts[k])) =>
              /\ call.fetches = apiClient.maxRetries + 1
              /\ call.result = Rejected(NetworkError))
        /\ ((\A k \in DOMAIN call.attempts :
               IsTimeout(call.attempts[k]) \/ IsNetworkFailure(call.attempts[k])) =>
              call.fetches = apiClient.maxRetries + 1))

\* C18: fetchClientDetail and fetchClientHistory called with an empty
\* clientId reject with an ApiError before any fetch: no network call, no
\* retry, no backoff delay.
C18_EmptyIdFailsBeforeNetwork ==
  (call.op \in {"fetchClientDetail", "fetchClientHistory"}
     /\ (call.clientId = <<>> \/ \A k \in DOMAIN call.clientId : call.clientId[k] = " "))
  => /\ call.phase = "settled"
     /\ call.fetches = 0
     /\ call.attempts = <<>>
     /\ call.delays = <<>>
     /\ call.retryCount = 0
     /\ call.result # <<>>
     /\ ~call.result[1].ok
     /\ call.result[1].error[1].class = "ApiError"

C18_Witness ==
  /\ call.op = "fetchClientHistory"
  /\ call.clientId = <<>>
  /\ call.phase = "settled"
  /\ call.fetches = 0
  /\ ~call.result[1].ok

----------------------------------------------------------------------------
(* Claims about the error classifier (checked under SpecClassify) *)

\* C17: for an ApiError the rules apply in order: network signature in the
\* message -> network, retryable; else timeout signature -> timeout,
\* retryable; else status 404 -> not_found, not retryable; else 400 ->
\* validation, not retryable; else status >= 500 -> server, retryable; else
\* unknown, retryable.  Any other Error and any non-error value -> unknown,
\* not retryable.  Every input gets a classification.
C17_ClassificationRules ==
  handled # <<>> =>
    LET e == handled[1].input
        r == handled[1].output
        network == \E k \in DOMAIN e.message :
                     e.message[k] \in {"Network error", "Unable to connect"}
        timeout == \E k \in DOMAIN e.message : e.message[k] = "timeout"
    IN /\ r.type \in {"network", "timeout", "not_found", "validation",
                      "server", "unknown"}
       /\ r.canRetry \in BOOLEAN
       /\ IF e.class # "ApiError" THEN r = [type |-> "unknown", canRetry |-> FALSE]
          ELSE IF network THEN r = [type |-> "network", canRetry |-> TRUE]
          ELSE IF timeout THEN r = [type |-> "timeout", canRetry |-> TRUE]
          ELSE IF e.statusCode = <<404>>
            THEN r = [type |-> "not_found", canRetry |-> FALSE]
          ELSE IF e.statusCode = <<400>>
            THEN r = [type |-> "validation", canRetry |-> FALSE]
          ELSE IF e.statusCode \in {<<500>>, <<503>>}
            THEN r = [type |-> "server", canRetry |-> TRUE]
          ELSE r = [type |-> "unknown", canRetry |-> TRUE]

C17_Witness ==
  /\ handled # <<>>
  /\ handled[1].input.class = "ApiError"
  /\ handled[1].input.message = <<"failed", "timeout">>
  /\ handled[1].input.statusCode = <<404>>
  /\ handled[1].output = [type |-> "timeout", canRetry |-> TRUE]

----------------------------------------------------------------------------
(* Claims about the data-fetching hooks (checked under SpecHooks) *)

\* C20: once a hook (useAllClients, useClientDetail, useClientHistory)
\* holds successfully loaded data, a later failed fetch through the same
\* hook leaves that data in place and only sets the error.
C20_StaleWhileError ==
  (hookEv.op = "failure" /\ hookEv.held # <<>>) =>
    /\ hookState[hookEv.hook].data = hookEv.held
    /\ hookState[hookEv.hook].error = hookEv.error
    /\ hookState[hookEv.hook].loading = FALSE

----------------------------------------------------------------------------
(* Claims about the detail prefetch (checked under SpecPrefetch) *)

\* C19: a failing prefetch request sets no error and does not block the
\* others: every listed client that has no cached detail and whose own
\* request would succeed eventually has its detail cached (or leaves the
\* list), also when the clients whose requests always fail come first.
\* Stated for g, which the backend lists after the five failing clients.
C19_PrefetchIsolation ==
  (MapHas(clients, "g") /\ clientDetailsMap["g"] = <<>>)
    ~> (clientDetailsMap["g"] # <<>> \/ ~MapHas(clients, "g"))


----------------------------------------------------------------------------
(* C21 - under SpecConfig *)

\* config.json exists, parses and carries a non-empty apiUrl
FileApiUrl(file) ==
  LET urls == {u \in {"http://cfg-a:7788", "http://cfg-b:7788"} :
                 file = FileOf(ObjectText("apiUrl", u))}
  IN IF urls = {} THEN <<>> ELSE <<CHOOSE u \in urls : TRUE>>

\* C21: the base URL of the default client is the value of
\* NEXT_PUBLIC_API_URL when the variable is set to a value; otherwise the
\* apiUrl of config.json when the file exists, parses and carries one;
\* otherwise http://localhost:7788.
C21_BaseUrlPrecedence ==
  build.phase = "loaded" =>
    apiClient.baseUrl =
      IF build.env # <<>> /\ build.env[1] # "" THEN build.env[1]
      ELSE IF FileApiUrl(build.file) # <<>> THEN FileApiUrl(build.file)[1]
      ELSE "http://localhost:7788"

\* the variable and the file name different URLs and the variable won
C21_Witness ==
  /\ build.phase = "loaded"
  /\ build.env = <<"http://env-a:7788">>
  /\ build.file = FileOf(ObjectText("apiUrl", "http://cfg-b:7788"))
  /\ apiClient.baseUrl = "http://env-a:7788"


----------------------------------------------------------------------------
(* C22 - under SpecFailures *)

\* C22: once a poll has completed successfully, no later poll sets loading
\* to true at its start, whatever the snapshots received so far were
\* (an empty client list included).
C22_LoadingOnlyOnInitialLoad ==
  (ev.op = "start" /\ ev.prev.response # <<>>) => ~loading


----------------------------------------------------------------------------
(* C23 - under SpecDiff *)

----------------------------------------------------------------------------
(* C24 - under SpecFailures *)

----------------------------------------------------------------------------
(* C25 - under Spec *)

\* C25: poll results are applied in request order: a response is never
\* applied to known after the response of a poll started later, so known
\* is the snapshot of the most recently started poll among those that
\* completed successfully.
C25_AppliedInRequestOrder ==
  ev.op = "success" => ~ev.stale


----------------------------------------------------------------------------
(* C26 - under SpecTransport *)

\* C26: the ApiError of a non-2xx response carries the body's `message`
\* when the body is JSON with a non-empty message; otherwise the raw body
\* text when the body is not empty (a JSON body without a message field
\* included); otherwise the generic 'HTTP <code>: <statusText>'.
C26_MessageFallbackChain ==
  (call.phase = "settled" /\ call.attempts # <<>>
     /\ IsHttpError(call.attempts[Len(call.attempts)])) =>
    LET body == call.attempts[Len(call.attempts)].body IN
      call.result[1].error[1].message =
        IF body = ObjectText("message", "Not found") THEN <<"Not found">>
        ELSE IF body # <<>> THEN body
        ELSE <<"HTTP ", "status">>


----------------------------------------------------------------------------
(* C27 - under SpecTransport *)

\* C27: every setting given to the constructor is used as given: with
\* maxRetries configured as n >= 0 (0 included) a request whose attempts
\* all time out makes exactly n + 1 network calls; a configured retryDelay
\* is the base of every backoff delay and a configured timeout is the
\* client's timeout, never the defaults.
C27_SettingsHonoured ==
  /\ (config.maxRetries # <<>> /\ call.phase = "settled" /\ call.attempts # <<>>
        /\ \A k \in DOMAIN call.attempts : IsTimeout(call.attempts[k])) =>
       call.fetches = config.maxRetries[1] + 1
  /\ config.retryDelay # <<>> =>
       \A k \in DOMAIN call.delays :
         call.delays[k] = config.retryDelay[1] * Pow2(k - 1)
  /\ config.timeout # <<>> => apiClient.timeout = config.timeout[1]


----------------------------------------------------------------------------
(* C28, C29, C30 - under SpecModal *)

\* the fetchClientDetail requests for id awaiting their response, issued
\* by the prefetch callback or by a card click
DetailRequestsInFlight(id) ==
  Cardinality({i \in DOMAIN detailReqs : detailReqs[i].clientId = id})
  + Cardinality({i \in DOMAIN clicks :
                   clicks[i].clientId = id /\ clicks[i].awaiting = "detail"})

\* C28: at most one detail request per client id is in flight: while a
\* fetchClientDetail for an id is pending, neither the prefetch callback
\* nor handleClientClick issues a second one for it.
C28_OneDetailRequestPerClient ==
  \A id \in ClientIds : DetailRequestsInFlight(id) <= 1

\* C29: whenever the detail modal is rendered, the detail it shows is that
\* of the expanded client.
C29_ModalShowsExpandedClient ==
  ModalRendered => ModalDetail[1].clientId = expandedClientId[1]

\* C30: whenever the history chart is rendered in the modal, every sample
\* it shows was fetched for the expanded client.
C30_HistoryOfExpandedClient ==
  HistoryChartRendered =>
    \A k \in DOMAIN ClientHistory[1] :
      ClientHistory[1][k].clientId = expandedClientId[1]

====
